---- MODULE Spec2Model ----
(***************************************************************************)
(* Model of pytradelab/db.py (class Database): the SQLite-backed store of  *)
(* sectors, industries, symbols and stats.                                 *)
(*                                                                         *)
(* Python values: a str is a tuple of pieces of text; a name is spelled    *)
(* character by character ("st" is <<"s","t">>) because the code iterates  *)
(* over names, a column name is one piece (<<"symbol">>).  None is the     *)
(* tuple <<"None">>, the integer n used as a dict key is <<"#", "n">>.  A  *)
(* dict is the tuple of its <<key, value>> items in iteration order; the   *)
(* keys of a record dict (a row to store) are column names, written as     *)
(* plain strings.  A raised exception is the field err of the value an     *)
(* operator returns ("ok" when nothing was raised).                        *)
(*                                                                         *)
(* SQLite: a table is the set of its rows, a row a function from column    *)
(* names to values; NULL is 0 in an id column and None elsewhere.  conn is *)
(* what the open connection sees (its uncommitted writes included), disk   *)
(* is what has been committed.                                             *)
(***************************************************************************)
EXTENDS Integers, Sequences, FiniteSets, TLC

VARIABLES fileState, obj, conn, disk, aborted, pre, result, ing, cod

vars == <<fileState, obj, conn, disk, aborted, pre, result, ing, cod>>

\* the state of the store, of the minute-data provider's generator (ing)
\* and of its row codec (cod); each specification drives one of them and
\* leaves the others as they start
dbVars == <<fileState, obj, conn, disk, aborted, pre, result>>

Idle == [stage |-> "idle"]

\* ---- bounds ----
MaxId == 2
MaxBatch == 2

\* ---- Python values ----
None == <<"None">>

Keys(d) == [i \in 1..Len(d) |-> d[i][1]]

Values(d) == [i \in 1..Len(d) |-> d[i][2]]

HasKey(d, k) == \E i \in 1..Len(d) : d[i][1] = k

Get(d, k) == d[CHOOSE i \in 1..Len(d) : d[i][1] = k][2]

Range(s) == {s[i] : i \in 1..Len(s)}

SetMax(S) == CHOOSE m \in S : \A x \in S : x <= m

SeqsUpTo(S, n) == UNION {[1..k -> S] : k \in 0..n}

\* ---- the schema: Database.__init__, lines 32-76 ----
sector_columns == <<"sector_id", "name">>

industry_columns == <<"industry_id", "name", "sector_id">>

symbol_columns ==
    <<"symbol_id", "symbol", "name", "industry_id", "exchange", "ipo_date",
      "newest_date">>

stats_columns ==
    <<"symbol_id", "last_trade_datetime", "last_trade_price",
      "last_trade_volume", "year_high", "year_low", "ma_50", "ma_200",
      "market_cap", "average_daily_volume", "dividend_pay_date",
      "ex_dividend_date", "dividend_share", "dividend_yield", "book_value",
      "ebitda", "earnings_per_share", "peg_ratio", "pe_ratio",
      "price_per_book", "price_per_sales", "short_ratio">>

Columns(table) ==
    CASE table = "sector" -> sector_columns
      [] table = "industry" -> industry_columns
      [] table = "symbol" -> symbol_columns
      [] table = "stats" -> stats_columns

ColSet(table) == Range(Columns(table))

\* the INTEGER PRIMARY KEY column is the first one of every table
PrimaryKey(table) == Columns(table)[1]

\* AUTOINCREMENT: sector, industry, symbol; the stats key is a plain rowid
AutoInc(table) == table \in {"sector", "industry", "symbol"}

\* TEXT UNIQUE NOT NULL
UniqueCols(table) ==
    CASE table \in {"sector", "industry"} -> {"name"}
      [] table = "symbol" -> {"symbol"}
      [] table = "stats" -> {}

NotNullCols(table) == UniqueCols(table)

IntCols == {"sector_id", "industry_id", "symbol_id"}

Null(c) == IF c \in IntCols THEN 0 ELSE None

EmptyDb ==
    [sector |-> {}, industry |-> {}, symbol |-> {}, stats |-> {},
     seq |-> [sector |-> 0, industry |-> 0, symbol |-> 0]]

\* ---- SQLite: INSERT OR REPLACE INTO table (columns) VALUES (?,...) ----

\* the rowid SQLite gives a row whose primary key is NULL
NextRowId(db, table) ==
    LET used == {r[PrimaryKey(table)] : r \in db[table]} \cup {0}
    IN  IF AutoInc(table)
        THEN SetMax(used \cup {db.seq[table]}) + 1
        ELSE SetMax(used) + 1

\* OR REPLACE: the rows that collide with the new row on the primary key
\* or on a UNIQUE column are deleted before the new row is inserted
ConflictingNoReplace(db, table, row) == {}

Conflicting(db, table, row) ==
    {r \in db[table] :
        \/ r[PrimaryKey(table)] = row[PrimaryKey(table)]
        \/ \E u \in UniqueCols(table) : r[u] = row[u]}

\* one execution of the prepared statement with one parameter tuple
ExecuteOne(db, table, columns, params) ==
    IF Len(params) # Len(columns)
    THEN [err |-> "ProgrammingError", db |-> db]
    ELSE
      LET bound == [c \in ColSet(table) |->
                      IF \E k \in 1..Len(columns) : columns[k] = c
                      THEN params[CHOOSE k \in 1..Len(columns) : columns[k] = c]
                      ELSE Null(c)]
          pk == PrimaryKey(table)
          rowid == IF bound[pk] = Null(pk) THEN NextRowId(db, table)
                   ELSE bound[pk]
          row == [bound EXCEPT ![pk] = rowid]
      IN  IF \E c \in NotNullCols(table) : row[c] = Null(c)
          THEN [err |-> "IntegrityError", db |-> db]
          ELSE [err |-> "ok",
                db |-> [db EXCEPT
                    ![table] = (@ \ Conflicting(db, table, row)) \cup {row},
                    !.seq = IF AutoInc(table)
                            THEN [@ EXCEPT ![table] =
                                    IF rowid > @ THEN rowid ELSE @]
                            ELSE @]]

\* cursor.executemany: the statement is prepared once, then executed for
\* each tuple the generator yields; an error stops it where it is and the
\* rows executed so far stay in the open transaction
RECURSIVE ExecuteRows(_, _, _, _)
ExecuteRows(db, table, columns, rows) ==
    IF rows = <<>> THEN [err |-> "ok", db |-> db]
    ELSE LET r == ExecuteOne(db, table, columns, Head(rows))
         IN  IF r.err # "ok" THEN r
             ELSE ExecuteRows(r.db, table, columns, Tail(rows))

executemany(fs, db, table, columns, rows) ==
    IF \/ fs # "schema"
       \/ columns = <<>>
       \/ ~(Range(columns) \subseteq ColSet(table))
    THEN [err |-> "OperationalError", db |-> db]
    ELSE ExecuteRows(db, table, columns, rows)

\* Database._execute_many, lines 111-115: commit only when executemany
\* returned; nothing rolls back when it raised
CommitIfOk(r, dsk) == IF r.err = "ok" THEN r.db ELSE dsk

execute_many(fs, db, dsk, table, columns, rows) ==
    LET r == executemany(fs, db, table, columns, rows)
    IN  [err |-> r.err, conn |-> r.db, disk |-> CommitIfOk(r, dsk)]

\* Database._select_rows, lines 101-109 (WHERE column = value)
select_rows(fs, db, table, column, value) ==
    IF fs # "schema" THEN [err |-> "OperationalError", rows |-> {}]
    ELSE [err |-> "ok", rows |-> {r \in db[table] : r[column] = value}]

\* Database._select_row, lines 98-99, followed by the [0] of the callers:
\* the first column of the first row; [][0] raises IndexError
select_id(fs, db, table, column, value) ==
    LET s == select_rows(fs, db, table, column, value)
    IN  IF s.err # "ok" THEN [err |-> s.err, id |-> 0]
        ELSE IF s.rows = {} THEN [err |-> "IndexError", id |-> 0]
        ELSE [err |-> "ok",
              id |-> (CHOOSE r \in s.rows : TRUE)[PrimaryKey(table)]]

get_symbol_id(fs, db, symbol) == select_id(fs, db, "symbol", "symbol", symbol)

get_sector_id(fs, db, sector) == select_id(fs, db, "sector", "name", sector)

get_industry_id(fs, db, industry) ==
    select_id(fs, db, "industry", "name", industry)

\* ---- Database.__insert_or_update, lines 178-189 ----

\* d.pop(key) for every key of remove_keys; a missing key raises KeyError
PopsOk(dicts, remove_keys) ==
    \A i \in 1..Len(dicts) : \A k \in remove_keys : HasKey(dicts[i], k)

PopAll(dicts, remove_keys) ==
    [i \in 1..Len(dicts) |->
        SelectSeq(dicts[i], LAMBDA p : p[1] \notin remove_keys)]

\* kind is "dicts" when iterating list_of_dicts yields dicts (it is a
\* list) and "keys" when it yields keys (it is a dict): a key is a str or
\* an int and has no pop
insert_or_update(fs, db, dsk, table, list_of_dicts, remove_keys, kind) ==
    IF kind = "keys" /\ remove_keys # {} /\ list_of_dicts # <<>>
    THEN [err |-> "AttributeError", conn |-> db, disk |-> dsk]
    ELSE IF kind = "keys"
    THEN [err |-> "KeyError", conn |-> db, disk |-> dsk]
    ELSE IF ~PopsOk(list_of_dicts, remove_keys)
    THEN [err |-> "KeyError", conn |-> db, disk |-> dsk]
    ELSE IF list_of_dicts = <<>>
    THEN [err |-> "IndexError", conn |-> db, disk |-> dsk]
    ELSE LET dicts == PopAll(list_of_dicts, remove_keys)
             columns == Keys(dicts[1])
             rows == [i \in 1..Len(dicts) |-> Values(dicts[i])]
         IN  execute_many(fs, db, dsk, table, columns, rows)

\* ---- Database.insert_or_update_sectors, lines 129-137 ----
\* sectors is [list |-> TRUE, v |-> a list of names] or
\* [list |-> FALSE, v |-> one name]
SectorList(sectors) == IF sectors.list THEN sectors.v ELSE <<sectors.v>>

insert_or_update_sectors(fs, db, dsk, sectors) ==
    LET l == SectorList(sectors)
    IN  insert_or_update(fs, db, dsk, "sector",
            [i \in 1..Len(l) |-> << <<"name", l[i]>> >>], {}, "dicts")

\* ---- Database.insert_or_update_industries, lines 139-150 ----

\* dict(pairs): one item per distinct key, the last value given for it
dict(pairs) ==
    LET lastOf(k) == CHOOSE i \in 1..Len(pairs) :
                        /\ pairs[i][1] = k
                        /\ \A j \in (i+1)..Len(pairs) : pairs[j][1] # k
    IN  [k \in {pairs[i][1] : i \in 1..Len(pairs)} |-> pairs[lastOf(k)][2]]

\* the orders in which iterating a dict may yield its keys
IterOrders(d) ==
    {o \in [1..Cardinality(DOMAIN d) -> DOMAIN d] :
        \A i, j \in DOMAIN o : i # j => o[i] # o[j]}

\* the list comprehension of lines 147-150 over the keys in iteration
\* order: "for i, s in industry_sectors" unpacks each KEY into i and s,
\* which takes a key of exactly two characters, then looks s up
RECURSIVE IndustryDicts(_, _, _)
IndustryDicts(fs, db, keys) ==
    IF keys = <<>> THEN [err |-> "ok", dicts |-> <<>>]
    ELSE LET k == Head(keys)
         IN  IF Len(k) # 2 THEN [err |-> "ValueError", dicts |-> <<>>]
             ELSE LET i == <<k[1]>>
                      s == <<k[2]>>
                      sid == get_sector_id(fs, db, s)
                  IN  IF sid.err # "ok"
                      THEN [err |-> sid.err, dicts |-> <<>>]
                      ELSE LET rest == IndustryDicts(fs, db, Tail(keys))
                           IN  IF rest.err # "ok" THEN rest
                               ELSE [err |-> "ok",
                                     dicts |->
                                       << << <<"name", i>>,
                                             <<"sector_id", sid.id>> >> >>
                                       \o rest.dicts]

insert_or_update_industries(fs, db, dsk, order) ==
    LET l == IndustryDicts(fs, db, order)
    IN  IF l.err # "ok" THEN [err |-> l.err, conn |-> db, disk |-> dsk]
        ELSE insert_or_update(fs, db, dsk, "industry", l.dicts, {}, "dicts")

\* ---- Database.insert_or_update_symbols, lines 152-164 ----
Int0 == <<"#", "0">>

\* dict(symbol_dicts) on a list of dicts: every element must iterate to
\* exactly two things, and iterating a dict yields its keys, so a record
\* of two keys becomes the item first key -> second key
DictOfRecords(items) ==
    IF \E i \in 1..Len(items) : Len(items[i]) # 2
    THEN [err |-> "ValueError", d |-> <<>>]
    ELSE LET all == [i \in 1..Len(items) |->
                        << <<items[i][1][1]>>, <<items[i][2][1]>> >>]
             last(i) == \A j \in (i+1)..Len(all) : all[j][1] # all[i][1]
             pick == {i \in 1..Len(all) : last(i)}
             RECURSIVE Take(_)
             Take(i) == IF i > Len(all) THEN <<>>
                        ELSE IF i \in pick THEN <<all[i]>> \o Take(i+1)
                        ELSE Take(i+1)
         IN  [err |-> "ok", d |-> Take(1)]

\* symbol_dicts is [isdict |-> FALSE, items |-> a list of record dicts] or
\* [isdict |-> TRUE, items |-> a dict whose values are record dicts]
insert_or_update_symbols(fs, db, dsk, symbol_dicts) ==
    LET conv == IF symbol_dicts.isdict
                THEN [err |-> "ok", d |-> symbol_dicts.items]
                ELSE DictOfRecords(symbol_dicts.items)
    IN  IF conv.err # "ok"
        THEN [err |-> conv.err, conn |-> db, disk |-> dsk]
        ELSE IF ~HasKey(conv.d, Int0)
        THEN [err |-> "KeyError", conn |-> db, disk |-> dsk]
        ELSE IF HasKey(Get(conv.d, Int0), "industry")
        \* "for d in symbol_dicts" yields the keys: d.pop on the first one
        THEN [err |-> "AttributeError", conn |-> db, disk |-> dsk]
        ELSE insert_or_update(fs, db, dsk, "symbol", Keys(conv.d),
                              {"sector"}, "keys")

\* ---- Database.insert_or_update_stats, lines 166-176 ----
SymbolKeys == <<"name", "industry", "exchange">>

\* new_d of lines 170-173: symbol first, then the popped keys in the order
\* of the list of line 171
NewD(d) ==
    << <<"symbol", Get(d, "symbol")>> >>
    \o SelectSeq([k \in 1..Len(SymbolKeys) |->
                    <<SymbolKeys[k],
                      IF HasKey(d, SymbolKeys[k]) THEN Get(d, SymbolKeys[k])
                      ELSE None>>],
                 LAMBDA p : HasKey(d, p[1]))

insert_or_update_stats(fs, db, dsk, stats) ==
    IF \E i \in 1..Len(stats) : ~HasKey(stats[i], "symbol")
    THEN [err |-> "KeyError", conn |-> db, disk |-> dsk, phase |-> "split"]
    ELSE LET symbol_dicts == [i \in 1..Len(stats) |-> NewD(stats[i])]
             rest == [i \in 1..Len(stats) |->
                        SelectSeq(stats[i],
                                  LAMBDA p : p[1] \notin Range(SymbolKeys))]
             s == insert_or_update_symbols(fs, db, dsk,
                        [isdict |-> FALSE, items |-> symbol_dicts])
         IN  IF s.err # "ok"
             THEN [err |-> s.err, conn |-> s.conn, disk |-> s.disk,
                   phase |-> "symbol"]
             ELSE LET t == insert_or_update(fs, s.conn, s.disk, "stats", rest,
                               {"sector", "ipo_date", "newest_date"}, "dicts")
                  IN  [err |-> t.err, conn |-> t.conn, disk |-> t.disk,
                       phase |-> "stats"]

\* ---- Database.insert_or_update_instruments, lines 191-228 ----
\* an instrument is [symbol, name, industry, value]: value stands for each
\* of its 21 stats fields.  param_gen looks the symbol id up when the row
\* is asked for, that is between the executions of the statement
RECURSIVE ExecuteInstruments(_, _, _)
ExecuteInstruments(fs, db, instruments) ==
    IF instruments = <<>> THEN [err |-> "ok", db |-> db]
    ELSE LET i == Head(instruments)
             sid == get_symbol_id(fs, db, i.symbol)
         IN  IF sid.err # "ok" THEN [err |-> sid.err, db |-> db]
             ELSE LET r == ExecuteOne(db, "stats", stats_columns,
                               <<sid.id>> \o
                               [k \in 1..(Len(stats_columns) - 1) |-> i.value])
                  IN  IF r.err # "ok" THEN r
                      ELSE ExecuteInstruments(fs, r.db, Tail(instruments))

insert_or_update_instruments(fs, db, dsk, instruments) ==
    LET all_symbols == dict([k \in 1..Len(instruments) |->
                               <<instruments[k].symbol,
                                 << <<"name", instruments[k].name>>,
                                    <<"industry", instruments[k].industry>> >>
                               >>])
        order == CHOOSE o \in IterOrders(all_symbols) : TRUE
        s == insert_or_update_symbols(fs, db, dsk,
                [isdict |-> TRUE,
                 items |-> [k \in 1..Len(order) |->
                              <<order[k], all_symbols[order[k]]>>]])
    IN  IF s.err # "ok" THEN s
        ELSE IF fs # "schema"
        THEN [err |-> "OperationalError", conn |-> s.conn, disk |-> s.disk]
        ELSE LET r == ExecuteInstruments(fs, s.conn, instruments)
             IN  [err |-> r.err, conn |-> r.db,
                  disk |-> CommitIfOk(r, s.disk)]

\* ---- Database.get_sectors / get_industries, lines 230-234 ----
\* _select_row returns the first row of the result, a 1-tuple holding one
\* name; SELECT without ORDER BY may put any row first
FirstRows(fs, db, table) ==
    IF fs # "schema" THEN {[err |-> "OperationalError", ret |-> <<>>]}
    ELSE IF db[table] = {} THEN {[err |-> "IndexError", ret |-> <<>>]}
    ELSE {[err |-> "ok", ret |-> <<r.name>>] : r \in db[table]}

get_sectors(fs, db) == FirstRows(fs, db, "sector")

get_industries(fs, db) == FirstRows(fs, db, "industry")

\* ---- Database.__init__ and _connect, lines 27-96 ----
\* _create_tables reads self._sector_columns ...; attrs tells whether
\* __init__ has assigned them yet
create_tables(attrs) == IF attrs THEN "ok" ELSE "AttributeError"

\* sqlite3.connect creates the file when it is missing
connect(fs, attrs) ==
    IF fs = "absent"
    THEN LET e == create_tables(attrs)
         IN  [err |-> e, fileState |-> IF e = "ok" THEN "schema" ELSE "empty"]
    ELSE [err |-> "ok", fileState |-> fs]

\* __init__ calls _connect on line 30, before the assignments of lines 32-76
AttrsSetAtConnect == FALSE

Database_init(fs) == connect(fs, AttrsSetAtConnect)

\* ---- the inputs of the calls ----
SectorNames == {<<"t">>, <<"t", "e", "c">>}

IndustryPairs ==
    { << <<"s", "o", "f">>, <<"t", "e", "c">> >>,
      << <<"s", "t">>, <<"t">> >>,
      << <<"i", "e">>, <<"t">> >> }

SymbolRecords ==
    { << <<"symbol", <<"A">>>>, <<"name", <<"N">>>> >>,
      << <<"name", <<"N">>>>, <<"symbol", <<"B">>>>, <<"industry", <<"s">>>> >> }

StatsRecords ==
    { << <<"symbol", <<"A">>>>, <<"name", <<"N">>>>,
         <<"pe_ratio", <<"1", "0">>>> >>,
      << <<"symbol", <<"B">>>>, <<"industry", <<"s">>>>,
         <<"sector", <<"t">>>>, <<"ipo_date", None>>, <<"newest_date", None>>,
         <<"pe_ratio", <<"1", "0">>>> >>,
      << <<"name", <<"N">>>>, <<"pe_ratio", <<"1", "0">>>> >> }

Instruments ==
    { [symbol |-> <<"A">>, name |-> <<"N">>, industry |-> <<"s">>,
       value |-> <<"1", "0">>] }

\* the three shapes of the argument of insert_or_update_symbols: a list of
\* records, a dict keyed by symbol, a dict keyed by 0, 1, ...
IndexKey(i) == <<"#", CASE i = 1 -> "0" [] i = 2 -> "1" [] i = 3 -> "2"
                        [] OTHER -> "3">>

SymbolArgs ==
    LET lists == SeqsUpTo(SymbolRecords, MaxBatch)
    IN  {[isdict |-> FALSE, items |-> l] : l \in lists}
        \cup {[isdict |-> TRUE,
               items |-> [i \in 1..Len(l) |-> <<IndexKey(i), l[i]>>]] :
              l \in lists}
        \cup {[isdict |-> TRUE,
               items |-> [i \in 1..Len(l) |-> <<Get(l[i], "symbol"), l[i]>>]] :
              l \in {m \in lists : \A i, j \in 1..Len(m) :
                        i # j => Get(m[i], "symbol") # Get(m[j], "symbol")}}

\* ---- the state machine ----

\* the ids given out by a call that raised
NewIds(before, after) ==
    {x \in {"sector", "industry", "symbol"} \X (1..MaxId + MaxBatch) :
        before.seq[x[1]] < x[2] /\ x[2] <= after.seq[x[1]]}

Return(op, args, r, ret) ==
    /\ conn' = r.conn
    /\ disk' = r.disk
    /\ aborted' = IF r.err = "ok" THEN aborted
                  ELSE aborted \cup NewIds(conn, r.conn)
    /\ pre' = conn
    /\ result' = [op |-> op, args |-> args, err |-> r.err, ret |-> ret,
                  again |-> result.op = op /\ result.err = "ok"
                            /\ result.args = args]
    /\ UNCHANGED <<fileState, obj, ing, cod>>

\* the database file is missing, or it is a database made with the DDL of
\* the schema above
Init ==
    /\ fileState \in {"absent", "schema"}
    /\ obj = "none"
    /\ conn = EmptyDb
    /\ disk = EmptyDb
    /\ aborted = {}
    /\ pre = EmptyDb
    /\ result = [op |-> "none", args |-> <<>>, err |-> "ok", ret |-> <<>>,
                 again |-> FALSE]
    /\ ing = Idle
    /\ cod = Idle

\* Database(path): a new connection sees what is committed; what the
\* dropped connection had not committed is rolled back
Construct ==
    LET r == Database_init(fileState)
    IN  /\ fileState' = r.fileState
        /\ obj' = IF r.err = "ok" THEN "ready" ELSE obj
        /\ conn' = disk
        /\ aborted' = {}
        /\ pre' = conn
        /\ result' = [op |-> "construct", args |-> <<fileState>>,
                      err |-> r.err, ret |-> <<>>, again |-> FALSE]
        /\ UNCHANGED <<disk, ing, cod>>

UpsertSectors ==
    /\ obj = "ready"
    /\ \E sectors \in
            {[list |-> TRUE, v |-> l] :
                l \in SeqsUpTo(SectorNames \cup {None}, MaxBatch)}
            \cup {[list |-> FALSE, v |-> s] : s \in SectorNames} :
        /\ conn.seq.sector + Len(SectorList(sectors)) <= MaxId
        /\ Return("upsertSectors", SectorList(sectors),
                  insert_or_update_sectors(fileState, conn, disk, sectors),
                  <<>>)

UpsertIndustries ==
    /\ obj = "ready"
    /\ \E pairs \in SeqsUpTo(IndustryPairs, MaxBatch) :
        \E order \in IterOrders(dict(pairs)) :
            /\ conn.seq.industry + Len(order) <= MaxId
            /\ Return("upsertIndustries", pairs,
                      insert_or_update_industries(fileState, conn, disk, order),
                      <<>>)

UpsertSymbols ==
    /\ obj = "ready"
    /\ \E symbol_dicts \in SymbolArgs :
        Return("upsertSymbols", symbol_dicts,
               insert_or_update_symbols(fileState, conn, disk, symbol_dicts),
               <<>>)

UpsertStats ==
    /\ obj = "ready"
    /\ \E stats \in SeqsUpTo(StatsRecords, MaxBatch) :
        LET r == insert_or_update_stats(fileState, conn, disk, stats)
        IN  Return("upsertStats", stats, r, <<r.phase>>)

UpsertInstruments ==
    /\ obj = "ready"
    /\ \E instruments \in SeqsUpTo(Instruments, MaxBatch) :
        Return("upsertInstruments", instruments,
               insert_or_update_instruments(fileState, conn, disk, instruments),
               <<>>)

GetSectors ==
    /\ obj = "ready"
    /\ \E r \in get_sectors(fileState, conn) :
        Return("getSectors", <<>>,
               [err |-> r.err, conn |-> conn, disk |-> disk], r.ret)

GetIndustries ==
    /\ obj = "ready"
    /\ \E r \in get_industries(fileState, conn) :
        Return("getIndustries", <<>>,
               [err |-> r.err, conn |-> conn, disk |-> disk], r.ret)

Next ==
    \/ Construct
    \/ UpsertSectors
    \/ UpsertIndustries
    \/ UpsertSymbols
    \/ UpsertStats
    \/ UpsertInstruments
    \/ GetSectors
    \/ GetIndustries

Spec == Init /\ [][Next]_vars

\* ---- __insert_or_update on the batches its callers hand it ----
\* insert_or_update_stats (line 176) and insert_or_update_symbols (line
\* 164) pass the caller's records on as they are, so their key sets may
\* differ from record to record
BulkRecords ==
    { << <<"symbol", <<"A">>>>, <<"name", <<"N">>>> >>,
      << <<"symbol", <<"B">>>>, <<"exchange", <<"X">>>> >>,
      << <<"symbol", <<"B">>>>, <<"name", <<"M">>>> >>,
      << <<"symbol", <<"A">>>> >> }

BulkUpsert ==
    /\ obj = "ready"
    /\ \E dicts \in SeqsUpTo(BulkRecords, MaxBatch) :
        /\ conn.seq.symbol + Len(dicts) <= MaxId
        /\ Return("bulk", dicts,
                  insert_or_update(fileState, conn, disk, "symbol", dicts, {},
                                   "dicts"),
                  <<>>)

NextBulk ==
    \/ Construct
    \/ BulkUpsert

SpecBulk == Init /\ [][NextBulk]_vars

\* ---- the claims ----
Schema == fileState = "schema"

IdOf(db, table, column, value) ==
    {r[PrimaryKey(table)] : r \in {x \in db[table] : x[column] = value}}

\* C1: every non-null Industry.sector_id is the id of an existing Sector
\* row, every non-null Symbol.industry_id the id of an existing Industry
\* row and every Stats.symbol_id the id of an existing Symbol row, after
\* any sequence of upsert calls.
C1_ReferentialIntegrity ==
    /\ \A i \in conn.industry :
          i.sector_id # 0 => \E r \in conn.sector : r.sector_id = i.sector_id
    /\ \A y \in conn.symbol :
          y.industry_id # 0 =>
             \E i \in conn.industry : i.industry_id = y.industry_id
    /\ \A t \in conn.stats : \E y \in conn.symbol : y.symbol_id = t.symbol_id

\* C2: constructing the store on a path where no file exists succeeds and
\* leaves the four tables created.
C2_ConstructCreatesTables ==
    (result.op = "construct" /\ result.args = <<"absent">>) =>
        /\ result.err = "ok"
        /\ obj = "ready"
        /\ Schema

\* C3: calling upsertSectors a second time with the same list succeeds and
\* leaves exactly one Sector row per distinct name of the list, and as many
\* rows as after the first call.
C3_UpsertSectorsIdempotent ==
    (result.op = "upsertSectors" /\ result.again) =>
        /\ result.err = "ok"
        /\ Cardinality(conn.sector) = Cardinality(pre.sector)
        /\ \A n \in Range(result.args) :
              /\ Cardinality({r \in conn.sector : r.name = n}) = 1
              /\ Cardinality({r \in disk.sector : r.name = n}) = 1

C3_Witness ==
    /\ result.op = "upsertSectors"
    /\ result.again
    /\ result.args # <<>>
    /\ \E r \in pre.sector : r.name = result.args[1]

\* C4: a Sector row that exists before an upsertSectors call is there,
\* with the same id and name, after it.
C4_SectorRowsStable ==
    (result.op = "upsertSectors" /\ result.err = "ok") =>
        \A r \in pre.sector : r \in conn.sector

\* C5: upsertIndustries fails with the referent-not-found error (the
\* IndexError of _select_row) and writes no Industry row when the sector
\* of a pair has no Sector row; otherwise it succeeds and stores each
\* industry with the id of the Sector row of its sector.
C5_UpsertIndustries ==
    (result.op = "upsertIndustries" /\ result.args # <<>> /\ Schema) =>
        LET d == dict(result.args)
        IN  IF \E k \in DOMAIN d : IdOf(pre, "sector", "name", d[k]) = {}
            THEN /\ result.err = "IndexError"
                 /\ conn.industry = pre.industry
            ELSE /\ result.err = "ok"
                 /\ \A k \in DOMAIN d :
                       \E i \in conn.industry :
                          /\ i.name = k
                          /\ i.sector_id \in IdOf(conn, "sector", "name", d[k])

\* C6: no row executed by a batch that failed part-way is ever persisted,
\* neither when the batch fails nor after a later call commits.
C6_NoPartialCommit ==
    \A x \in aborted :
        \A r \in disk[x[1]] : r[PrimaryKey(x[1])] # x[2]

\* the records of a stats or symbols batch all carry a symbol, and the
\* industries they name exist
ValidSymbolSide(recs) ==
    /\ recs # <<>>
    /\ \A i \in 1..Len(recs) :
          /\ HasKey(recs[i], "symbol")
          /\ HasKey(recs[i], "industry") =>
                IdOf(pre, "industry", "name", Get(recs[i], "industry")) # {}

\* C7: upsertStats on records mixing Symbol and Stats fields ends with a
\* Symbol row carrying the Symbol fields of each record and a Stats row,
\* keyed by that symbol's id, carrying its Stats fields.
C7_StatsSplit ==
    (result.op = "upsertStats" /\ Schema /\ ValidSymbolSide(result.args)) =>
        \A i \in 1..Len(result.args) :
            LET rec == result.args[i]
            IN  \E y \in conn.symbol :
                   /\ y.symbol = Get(rec, "symbol")
                   /\ HasKey(rec, "name") => y.name = Get(rec, "name")
                   /\ \E t \in conn.stats :
                         /\ t.symbol_id = y.symbol_id
                         /\ t.pe_ratio = Get(rec, "pe_ratio")

\* C8: an upsertStats call that fails has failed in its Stats phase, after
\* the Symbol phase was committed: the Symbol rows of its records are
\* persisted.
C8_SymbolPhaseCommitted ==
    (/\ result.op = "upsertStats"
     /\ Schema
     /\ ValidSymbolSide(result.args)
     /\ result.err # "ok") =>
        /\ result.ret = <<"stats">>
        /\ \A i \in 1..Len(result.args) :
              \E y \in disk.symbol : y.symbol = Get(result.args[i], "symbol")

\* C9: upsertSymbols resolves the industry of every record that carries
\* one: the stored Symbol row has the id of the Industry row of that name;
\* the call fails with the referent-not-found error (the IndexError of
\* _select_row) and writes nothing when an industry does not exist.
C9_SymbolsResolveIndustry ==
    (/\ result.op = "upsertSymbols"
     /\ Schema
     /\ ~result.args.isdict
     /\ result.args.items # <<>>) =>
        LET recs == result.args.items
        IN  IF ValidSymbolSide(recs)
            THEN /\ result.err = "ok"
                 /\ \A i \in 1..Len(recs) :
                       HasKey(recs[i], "industry") =>
                          \E y \in conn.symbol :
                             /\ y.symbol = Get(recs[i], "symbol")
                             /\ y.industry_id \in
                                   IdOf(conn, "industry", "name",
                                        Get(recs[i], "industry"))
            ELSE /\ result.err = "IndexError"
                 /\ conn.symbol = pre.symbol

\* C10: getSectors returns the names of all the Sector rows, getIndustries
\* the names of all the Industry rows.
C10_GetAllNames ==
    /\ (result.op = "getSectors" /\ Schema /\ conn.sector # {}) =>
          /\ result.err = "ok"
          /\ Range(result.ret) = {r.name : r \in conn.sector}
    /\ (result.op = "getIndustries" /\ Schema /\ conn.industry # {}) =>
          /\ result.err = "ok"
          /\ Range(result.ret) = {r.name : r \in conn.industry}

\* ---- pytradelib/data/providers/yahoo/minute.py ----
\* YahooFrequencyProvider.process_downloaded_data, lines 66-106.
\* A line is [kind, text, e, rest]: kind "text" with its text, kind "epoch"
\* when it starts with the integer field e (seconds since the epoch), kind
\* "date" when it starts with a date formatted with DATE_FORMAT (e is then
\* the local calendar time, in seconds); rest is what follows the first
\* comma.  Times of day are minutes since midnight.
MaxDays == 2

TextLine(t) == [kind |-> "text", text |-> t, e |-> 0, rest |-> ""]

RowLine(e) ==
    [kind |-> "epoch", text |-> "", e |-> e, rest |-> "1.0,2.0,0.5,1.5,100"]

\* row.startswith(prefix), for the texts the payloads are made of
startswith(row, prefix) ==
    /\ row.kind = "text"
    /\ <<row.text, prefix>> \in
          {<<"error", "error">>, <<"volume,date", "volume">>}

\* data.strip().split('\n'): an empty payload splits into one empty line
split(data) == IF data = <<>> THEN <<TextLine("")>> ELSE data

\* data_rows[i+1:], line 81 (i counts from 1 here)
ChopHeaderKeepingIt(data_rows, i) == SubSeq(data_rows, i, Len(data_rows))

ChopHeader(data_rows, i) == SubSeq(data_rows, i + 1, Len(data_rows))

\* the header scan of lines 73-82: an error line sets the flag and prints
\* the line after it (IndexError when there is none) and the scan goes on;
\* the first volume line chops the header off and ends the scan
RECURSIVE ScanFrom(_, _, _)
ScanFrom(data_rows, i, error) ==
    IF i > Len(data_rows)
    THEN [err |-> "ok", error |-> error, rows |-> data_rows]
    ELSE IF startswith(data_rows[i], "error")
    THEN IF i + 1 > Len(data_rows)
         THEN [err |-> "IndexError", error |-> TRUE, rows |-> data_rows]
         ELSE ScanFrom(data_rows, i + 1, TRUE)
    ELSE IF startswith(data_rows[i], "volume")
    THEN [err |-> "ok", error |-> error, rows |-> ChopHeader(data_rows, i)]
    ELSE ScanFrom(data_rows, i + 1, error)

ScanHeaderNoFlag(data_rows) ==
    [ScanFrom(data_rows, 1, FALSE) EXCEPT !.error = FALSE]

ScanHeader(data_rows) == ScanFrom(data_rows, 1, FALSE)

\* datetime.fromtimestamp(int(columns[0])).strftime(DATE_FORMAT): int()
\* takes an integer field only; the date is the local time, tz seconds
\* east of UTC
ConvertRow(row, tz) ==
    IF row.kind # "epoch" THEN [err |-> "ValueError", row |-> row]
    ELSE [err |-> "ok", row |-> [row EXCEPT !.kind = "date", !.e = @ + tz]]

\* the loop of lines 91-99: the first row that fails ends it, and the
\* except clause abandons the symbol-day
ConvertDatesSkippingBad(data_rows, tz) ==
    LET good == SelectSeq(data_rows, LAMBDA r : ConvertRow(r, tz).err = "ok")
    IN  [err |-> "ok",
         rows |-> [i \in 1..Len(good) |-> ConvertRow(good[i], tz).row]]

ConvertDates(data_rows, tz) ==
    IF \E i \in 1..Len(data_rows) : ConvertRow(data_rows[i], tz).err # "ok"
    THEN [err |-> "Exception", rows |-> <<>>]
    ELSE [err |-> "ok",
          rows |-> [i \in 1..Len(data_rows) |->
                      ConvertRow(data_rows[i], tz).row]]

\* datetime.time(9, 30) and datetime.time(16), line 103
SessionOpen == 570

SessionClose == 960

\* lines 101-105: the last row is popped when more than one row is left
\* and now is strictly between the two times
WithholdInclusive(data_rows, now) ==
    IF Len(data_rows) > 1 /\ SessionOpen <= now /\ now <= SessionClose
    THEN SubSeq(data_rows, 1, Len(data_rows) - 1)
    ELSE data_rows

Withhold(data_rows, now) ==
    IF Len(data_rows) > 1 /\ SessionOpen < now /\ now < SessionClose
    THEN SubSeq(data_rows, 1, Len(data_rows) - 1)
    ELSE data_rows

\* one turn of the loop of line 69 on the pair <<data, file_path>>
ProcessPair(pair, tz, now) ==
    LET sc == ScanHeader(split(pair[1]))
        cv == ConvertDates(sc.rows, tz)
    IN  IF sc.err # "ok"
        THEN [outcome |-> "raised", handed |-> <<>>, cleaned |-> <<>>,
              rows |-> <<>>]
        ELSE IF sc.error
        THEN [outcome |-> "error", handed |-> <<>>, cleaned |-> <<>>,
              rows |-> <<>>]
        ELSE IF cv.err # "ok"
        THEN [outcome |-> "datefail", handed |-> sc.rows, cleaned |-> <<>>,
              rows |-> <<>>]
        ELSE [outcome |-> "emit", handed |-> sc.rows, cleaned |-> cv.rows,
              rows |-> Withhold(cv.rows, now)]

\* ---- the payloads, the clock and the time zone ----
ErrorLine == TextLine("error")

MessageLine == TextLine("message:rate limited")

VolumeLine == TextLine("volume,date")

JunkLine == TextLine("junk")

BadRow == [TextLine("n/a") EXCEPT !.rest = "1.0,2.0,0.5,1.5,100"]

Row1 == RowLine(1000000000)

Row2 == RowLine(1000000060)

Pairs ==
    { << <<JunkLine, VolumeLine, Row1>>, "A.csv" >>,
      << <<JunkLine, VolumeLine, Row1, Row2>>, "B.csv" >>,
      << <<Row1, Row2>>, "A.csv" >>,
      << <<VolumeLine>>, "B.csv" >>,
      << <<ErrorLine, MessageLine>>, "A.csv" >>,
      << <<ErrorLine>>, "B.csv" >>,
      << <<ErrorLine, MessageLine, VolumeLine, Row1>>, "A.csv" >>,
      << <<VolumeLine, Row1, ErrorLine, MessageLine>>, "B.csv" >>,
      << <<VolumeLine, Row1, BadRow>>, "A.csv" >>,
      << <<>>, "B.csv" >> }

Times == {540, SessionOpen, 720, SessionClose, 1020}

TZOffsets == {-18000, 0, 3600}

\* ---- the generator as a state machine ----
InitIngest ==
    /\ fileState = "absent"
    /\ obj = "none"
    /\ conn = EmptyDb
    /\ disk = EmptyDb
    /\ aborted = {}
    /\ pre = EmptyDb
    /\ result = [op |-> "none", args |-> <<>>, err |-> "ok", ret |-> <<>>,
                 again |-> FALSE]
    /\ cod = Idle
    /\ \E inputs \in SeqsUpTo(Pairs, MaxDays), tz \in TZOffsets :
          ing = [stage |-> "running", tz |-> tz, inputs |-> inputs,
                 outcomes |-> <<>>, yielded |-> <<>>,
                 last |-> [now |-> 0, handed |-> <<>>, cleaned |-> <<>>]]

\* the next pair is taken and processed; a pair is yielded, or the
\* symbol-day is skipped, or the exception leaves the generator
ProcessSymbolDay ==
    /\ ing.stage = "running"
    /\ Len(ing.outcomes) < Len(ing.inputs)
    /\ \E now \in Times :
        LET day == Len(ing.outcomes) + 1
            pair == ing.inputs[day]
            r == ProcessPair(pair, ing.tz, now)
        IN  ing' = [ing EXCEPT
                !.stage = IF r.outcome = "raised" THEN "raised" ELSE @,
                !.outcomes = Append(@, r.outcome),
                !.yielded = IF r.outcome = "emit"
                            THEN Append(@, [rows |-> r.rows, path |-> pair[2],
                                            day |-> day])
                            ELSE @,
                !.last = [now |-> now, handed |-> r.handed,
                          cleaned |-> r.cleaned]]
    /\ UNCHANGED <<dbVars, cod>>

\* data_file_paths is exhausted: the generator returns
Exhausted ==
    /\ ing.stage = "running"
    /\ Len(ing.outcomes) = Len(ing.inputs)
    /\ ing' = [ing EXCEPT !.stage = "done"]
    /\ UNCHANGED <<dbVars, cod>>

NextIngest ==
    \/ ProcessSymbolDay
    \/ Exhausted

SpecIngest == InitIngest /\ [][NextIngest]_vars

\* the records of a batch that are the last one given for their symbol
LastForSymbol(recs) ==
    {i \in 1..Len(recs) :
        \A j \in (i+1)..Len(recs) :
            Get(recs[j], "symbol") # Get(recs[i], "symbol")}

SymbolTextCols == {"name", "exchange", "ipo_date", "newest_date"}

\* C11: after upsertSymbols there is exactly one Symbol row for each
\* symbol of the batch, and its columns are exactly the ones the latest
\* record for that symbol supplies: a column it does not supply is null,
\* whatever an earlier call stored there.
C11_SymbolFullReplace ==
    (/\ result.op = "upsertSymbols"
     /\ Schema
     /\ ~result.args.isdict
     /\ ValidSymbolSide(result.args.items)) =>
        \A i \in LastForSymbol(result.args.items) :
            LET rec == result.args.items[i]
                rows == {y \in conn.symbol : y.symbol = Get(rec, "symbol")}
            IN  /\ Cardinality(rows) = 1
                /\ \A y \in rows : \A c \in SymbolTextCols :
                      y[c] = IF HasKey(rec, c) THEN Get(rec, c) ELSE None

\* C20: every row a bulk upsert stores holds, in each column, the value
\* that one record of the batch gave under that column's name, and null in
\* the columns that record does not name.
C20_ValuesBoundToOwnKeys ==
    result.op = "bulk" =>
        \A y \in {r \in conn.symbol : r.symbol_id > pre.seq.symbol} :
            \E i \in 1..Len(result.args) :
                LET rec == result.args[i]
                IN  \A c \in ColSet("symbol") \ {"symbol_id"} :
                       y[c] = IF HasKey(rec, c) THEN Get(rec, c) ELSE Null(c)

\* ---- YahooFrequencyProvider.row_to_bar / bar_to_row, lines 33-58 ----
\* A row is the tuple of its comma-separated fields; a field is [kind, v]:
\* kind "int" (v the integer), "float" (v in thousandths), "date" (a date
\* in DATE_FORMAT, v the calendar time in seconds) or "text".  A Bar holds
\* its calendar time in seconds and its prices and volume in thousandths.
Field(kind, v) == [kind |-> kind, v |-> v]

\* int(s) and float(s)
IsInt(f) == f.kind = "int"

IsFloat(f) == f.kind \in {"int", "float"}

FloatOf(f) == IF f.kind = "int" THEN f.v * 1000 ELSE f.v

\* '%.2f' % x and '%i' % x, for x >= 0 that is no tie between two cents
Round2(x) == ((x + 5) \div 10) * 10

Trunc(x) == x \div 1000

\* bar.Bar(...) asserts the OHLC ordering and a volume >= 0
BarValid(b) ==
    /\ b.low <= b.open /\ b.low <= b.close /\ b.low <= b.high
    /\ b.high >= b.open /\ b.high >= b.close
    /\ b.volume >= 0

NoBar ==
    [date_time |-> 0, open |-> 0, high |-> 0, low |-> 0, close |-> 0,
     volume |-> 0, adj_close |-> 0]

Raised(e) == [err |-> e, kind |-> "none", bar |-> NoBar]

\* row_to_bar: the timestamp is read with datetime.fromtimestamp, the
\* local time, tz seconds east of UTC, or else with strptime; only the
\* AssertionError of Bar is caught
row_to_bar(row, tz) ==
    IF ~IsInt(row[1]) /\ row[1].kind # "date" THEN Raised("ValueError")
    ELSE IF \E k \in 2..6 :
               /\ \A j \in 2..(k - 1) : j <= Len(row) /\ IsFloat(row[j])
               /\ k > Len(row)
    THEN Raised("IndexError")
    ELSE IF \E k \in 2..6 : ~IsFloat(row[k]) THEN Raised("ValueError")
    ELSE LET date == IF IsInt(row[1]) THEN row[1].v + tz ELSE row[1].v
             b == [date_time |-> date, open |-> FloatOf(row[5]),
                   high |-> FloatOf(row[3]), low |-> FloatOf(row[4]),
                   close |-> FloatOf(row[2]), volume |-> FloatOf(row[6]),
                   adj_close |-> FloatOf(row[2])]
         IN  IF BarValid(b) THEN [err |-> "ok", kind |-> "bar", bar |-> b]
             ELSE [err |-> "ok", kind |-> "failure", bar |-> NoBar]

\* bar_to_row: calendar.timegm reads the bar's time as UTC
bar_to_row(bar_) ==
    << Field("int", bar_.date_time),
       Field("float", Round2(bar_.close)),
       Field("float", Round2(bar_.high)),
       Field("float", Round2(bar_.low)),
       Field("float", Round2(bar_.open)),
       Field("int", Trunc(bar_.volume)) >>

\* ---- the bars and rows given to the codec ----
Prices == {1004, 1996}

Bars ==
    {b \in [date_time : {1000000000, 1000000060}, open : Prices,
            high : Prices, low : Prices, close : Prices,
            volume : {0, 100400}, adj_close : Prices] :
        BarValid(b) /\ b.adj_close = b.close}

RawRows ==
    { << Field("int", 1000000000), Field("float", 1500), Field("float", 2000),
         Field("float", 500), Field("float", 1000), Field("int", 100) >>,
      << Field("date", 1000000000), Field("float", 1500), Field("float", 2000),
         Field("float", 500), Field("float", 1000), Field("int", 100) >>,
      << Field("int", 1000000000), Field("float", 1500), Field("float", 500),
         Field("float", 2000), Field("float", 1000), Field("int", 100) >>,
      << Field("int", 1000000000), Field("text", 0), Field("float", 2000),
         Field("float", 500), Field("float", 1000), Field("int", 100) >>,
      << Field("text", 0), Field("float", 1500), Field("float", 2000),
         Field("float", 500), Field("float", 1000), Field("int", 100) >>,
      << Field("int", 1000000000), Field("float", 1500),
         Field("float", 2000) >> }

InitCodec ==
    /\ fileState = "absent"
    /\ obj = "none"
    /\ conn = EmptyDb
    /\ disk = EmptyDb
    /\ aborted = {}
    /\ pre = EmptyDb
    /\ result = [op |-> "none", args |-> <<>>, err |-> "ok", ret |-> <<>>,
                 again |-> FALSE]
    /\ ing = Idle
    /\ \E tz \in TZOffsets :
          \/ \E b \in Bars :
                cod = [stage |-> "bar", tz |-> tz, bar |-> b, row |-> <<>>,
                       out |-> Raised("ok")]
          \/ \E row \in RawRows :
                cod = [stage |-> "row", tz |-> tz, bar |-> NoBar,
                       row |-> row, out |-> Raised("ok")]

Encode ==
    /\ cod.stage = "bar"
    /\ cod' = [cod EXCEPT !.stage = "encoded", !.row = bar_to_row(cod.bar)]
    /\ UNCHANGED <<dbVars, ing>>

Decode ==
    /\ cod.stage \in {"encoded", "row"}
    /\ cod' = [cod EXCEPT
                  !.stage = IF @ = "encoded" THEN "roundtrip" ELSE "decoded",
                  !.out = row_to_bar(cod.row, cod.tz)]
    /\ UNCHANGED <<dbVars, ing>>

NextCodec ==
    \/ Encode
    \/ Decode

SpecCodec == InitCodec /\ [][NextCodec]_vars

\* ---- the claims about the minute-data provider ----
HasErrorLine(lines) ==
    \E i \in 1..Len(lines) : startswith(lines[i], "error")

HeaderAt(lines) == {i \in 1..Len(lines) : startswith(lines[i], "volume")}

\* the lines after the first header line, all the lines without one
AfterHeader(lines) ==
    IF HeaderAt(lines) = {} THEN lines
    ELSE LET h == CHOOSE i \in HeaderAt(lines) : \A j \in HeaderAt(lines) : i <= j
         IN  [k \in 1..(Len(lines) - h) |-> lines[h + k]]

Convertible(line) == line.kind = "epoch"

YieldedFor(day) == {y \in Range(ing.yielded) : y.day = day}

Processed == Len(ing.outcomes)

LinesOf(day) == split(ing.inputs[day][1])

\* C12: when the generator has ended, every symbol-day whose payload has
\* no error line and only convertible date fields has been yielded,
\* whatever the other symbol-days of the sequence are.
C12_SiblingsStillYielded ==
    ing.stage \in {"done", "raised"} =>
        \A d \in 1..Len(ing.inputs) :
            (/\ ~HasErrorLine(LinesOf(d))
             /\ \A l \in Range(AfterHeader(LinesOf(d))) : Convertible(l)) =>
                YieldedFor(d) # {}

\* C13: no pair is ever yielded for a symbol-day whose payload has a line
\* beginning with error, wherever that line stands.
C13_ErrorDayNotEmitted ==
    ing.stage # "idle" =>
        \A d \in 1..Len(ing.inputs) :
            HasErrorLine(LinesOf(d)) => YieldedFor(d) = {}

C13_Witness ==
    /\ ing.stage # "idle"
    /\ \E d \in 1..Processed :
          /\ \E i, j \in 1..Len(LinesOf(d)) :
                /\ i < j
                /\ startswith(LinesOf(d)[i], "volume")
                /\ startswith(LinesOf(d)[j], "error")
          /\ ing.outcomes[d] = "datefail"
          /\ YieldedFor(d) = {}

\* C14: a yielded symbol-day holds its cleaned rows without the last one
\* when two or more rows are left and the time of day is after 09:30 and
\* before 16:00, and all its cleaned rows otherwise.
C14_LiveWindowWithholding ==
    (ing.stage # "idle" /\ Processed > 0
        /\ ing.outcomes[Processed] = "emit") =>
        LET c == ing.last.cleaned
            now == ing.last.now
        IN  \A y \in YieldedFor(Processed) :
               IF Len(c) >= 2 /\ now > 570 /\ now < 960
               THEN /\ Len(y.rows) = Len(c) - 1
                    /\ \A k \in 1..(Len(c) - 1) : y.rows[k] = c[k]
               ELSE y.rows = c

C14_Witness ==
    /\ ing.stage # "idle"
    /\ Processed > 0
    /\ ing.outcomes[Processed] = "emit"
    /\ Len(ing.last.cleaned) = 2
    /\ ing.last.now = 720
    /\ \E y \in YieldedFor(Processed) : Len(y.rows) = 1

\* C17: for a payload without an error line that has a header line, the
\* rows handed to the date conversion are the lines after that header
\* line, in order, and every yielded row is the conversion of one of them.
C17_HeaderStripped ==
    (ing.stage # "idle" /\ Processed > 0
        /\ ~HasErrorLine(LinesOf(Processed))
        /\ HeaderAt(LinesOf(Processed)) # {}) =>
        /\ ing.last.handed = AfterHeader(LinesOf(Processed))
        /\ \A y \in YieldedFor(Processed) : \A k \in 1..Len(y.rows) :
              /\ y.rows[k].kind = "date"
              /\ [y.rows[k] EXCEPT !.kind = "epoch", !.e = @ - ing.tz]
                    = AfterHeader(LinesOf(Processed))[k]

C17_Witness ==
    /\ ing.stage # "idle"
    /\ Processed > 0
    /\ ~HasErrorLine(LinesOf(Processed))
    /\ \E h \in HeaderAt(LinesOf(Processed)) : h > 1
    /\ Len(ing.last.handed) = 2
    /\ \E y \in YieldedFor(Processed) : y.rows # <<>>

\* C18: no pair is yielded for a symbol-day one of whose remaining rows
\* has a date field that cannot be converted.
C18_DateFailureDropsDay ==
    ing.stage # "idle" =>
        \A d \in 1..Processed :
            (\E l \in Range(AfterHeader(LinesOf(d))) : ~Convertible(l)) =>
                YieldedFor(d) = {}

C18_Witness ==
    /\ ing.stage # "idle"
    /\ \E d \in 1..Processed :
          LET rows == AfterHeader(LinesOf(d))
          IN  /\ ~HasErrorLine(LinesOf(d))
              /\ Len(rows) >= 2
              /\ Convertible(rows[1])
              /\ ~Convertible(rows[Len(rows)])
              /\ ing.outcomes[d] = "datefail"
              /\ YieldedFor(d) = {}

\* C19: when the generator has ended, every symbol-day has ended in one
\* of the states error-detected, date-conversion-failed or emit, and the
\* yielded pairs are a subsequence of the inputs: increasing days, each
\* with the source identifier of its input.
C19_TerminalStates ==
    ing.stage \in {"done", "raised"} =>
        /\ Processed = Len(ing.inputs)
        /\ \A d \in 1..Processed :
              ing.outcomes[d] \in {"error", "datefail", "emit"}
        /\ \A k \in 1..Len(ing.yielded) :
              /\ ing.yielded[k].day \in 1..Len(ing.inputs)
              /\ ing.yielded[k].path = ing.inputs[ing.yielded[k].day][2]
              /\ \A j \in 1..(k - 1) :
                    ing.yielded[j].day < ing.yielded[k].day

\* ---- the claims about the row codec ----

\* C15: decode(encode(b)) is a Bar equal to b: the same timestamp, the
\* prices equal to two decimals, the volume equal after truncation.
C15_RoundTrip ==
    cod.stage = "roundtrip" =>
        /\ cod.out.err = "ok"
        /\ cod.out.kind = "bar"
        /\ cod.out.bar.date_time = cod.bar.date_time
        /\ \A f \in {"open", "high", "low", "close"} :
              cod.out.bar[f] = ((cod.bar[f] + 5) \div 10) * 10
        /\ cod.out.bar.volume = (cod.bar.volume \div 1000) * 1000

\* a row that parses: six fields, a timestamp and five numbers
Parses(row) ==
    /\ Len(row) >= 6
    /\ row[1].kind \in {"int", "date"}
    /\ \A k \in 2..6 : row[k].kind \in {"int", "float"}

\* C16: decode raises on no row; a row that fails field parsing or
\* violates the OHLC invariants gives a failure value, not a Bar.
C16_DecodeNeverRaises ==
    cod.stage = "decoded" =>
        /\ cod.out.err = "ok"
        /\ ~Parses(cod.row) => cod.out.kind = "failure"
        /\ cod.out.kind = "bar" => BarValid(cod.out.bar)

====
